---- MODULE Spec2Model ----
(***************************************************************************)
(* A model of dictionaries/meta/translate_codex_stream.py: the controlled  *)
(* translator (masking, overrides, dictionary matcher, restoration), the   *)
(* JSON walker, the delta accumulator and the line processor.              *)
(*                                                                         *)
(* Text is a sequence of characters, each character a one-character        *)
(* string.  Backtick stands for the grave accent, which a TLA+ string      *)
(* cannot hold.                                                            *)
(***************************************************************************)
EXTENDS Integers, Sequences, FiniteSets, TLC

\* ------------------------------------------------------------ characters

Backtick == "BACKTICK"

UpperSeq == <<"A", "B", "C", "D", "E", "F", "G", "H", "I", "J", "K", "L", "M", "N", "O", "P", "Q", "R", "S", "T", "U", "V", "W", "X", "Y", "Z">>

LowerSeq == <<"a", "b", "c", "d", "e", "f", "g", "h", "i", "j", "k", "l", "m", "n", "o", "p", "q", "r", "s", "t", "u", "v", "w", "x", "y", "z">>

DigitSeq == <<"0", "1", "2", "3", "4", "5", "6", "7", "8", "9">>

AsciiUpper == {UpperSeq[i] : i \in 1..Len(UpperSeq)}

AsciiLower == {LowerSeq[i] : i \in 1..Len(LowerSeq)}

AsciiLetters == AsciiUpper \cup AsciiLower

Digits == {DigitSeq[i] : i \in 1..Len(DigitSeq)}

\* [A-Za-z0-9]
AsciiAlnum == AsciiLetters \cup Digits

\* \w and [A-Za-z0-9_]
WordChars == AsciiAlnum \cup {"_"}

\* \s, str.strip() and str.isspace()
Whitespace == {" ", "\t", "\n", "\r", "\f"}

LowerChar(c) ==
    IF c \in AsciiUpper
    THEN LowerSeq[CHOOSE i \in 1..Len(UpperSeq) : UpperSeq[i] = c]
    ELSE c

\* str.lower()
Lower(text) == [i \in 1..Len(text) |-> LowerChar(text[i])]

\* ------------------------------------------------------------ text helpers

\* the least and the greatest member of a non-empty set of integers
\* body with value for its parameter: value is computed once, however often
\* body uses it
Let(value, body(_)) == body(value)

Min(S) == CHOOSE m \in S : \A k \in S : m <= k

Max(S) == CHOOSE m \in S : \A k \in S : k <= m

\* the text from position i (1-based) to its end
From(text, i) == SubSeq(text, i, Len(text))

\* pat occurs in text at position i
OccursAt(text, i, pat) ==
    /\ i >= 1
    /\ i + Len(pat) - 1 <= Len(text)
    /\ \A k \in 1..Len(pat) : text[i + k - 1] = pat[k]

\* pat in text
Contains(text, pat) == \E i \in 1..(Len(text) + 1) : OccursAt(text, i, pat)

\* text.startswith(pat)
StartsWith(text, pat) == OccursAt(text, 1, pat)

\* the end (exclusive) of the longest run of characters of `allowed` from i
RunEnd(text, i, allowed) ==
    CHOOSE j \in i..(Len(text) + 1) :
        /\ \A k \in i..(j - 1) : text[k] \in allowed
        /\ j = Len(text) + 1 \/ text[j] \notin allowed

\* the end (exclusive) of the longest run of characters outside `stops` from i
RunEndNot(text, i, stops) ==
    CHOOSE j \in i..(Len(text) + 1) :
        /\ \A k \in i..(j - 1) : text[k] \notin stops
        /\ j = Len(text) + 1 \/ text[j] \in stops

\* str.strip()
Strip(text) ==
    LET first == RunEnd(text, 1, Whitespace)
        keep == {j \in first..Len(text) : text[j] \notin Whitespace}
    IN  IF keep = {} THEN <<>> ELSE SubSeq(text, first, Max(keep))

RECURSIVE CollapseFrom(_, _)
\* re.sub(r"\s+", " ", text) from position i: the text up to the next run of
\* whitespace, one space for the run, and the rest likewise
CollapseFrom(text, i) ==
    LET j == RunEndNot(text, i, Whitespace)
    IN  IF j > Len(text) THEN From(text, i)
        ELSE SubSeq(text, i, j - 1) \o <<" ">>
             \o CollapseFrom(text, RunEnd(text, j, Whitespace))

normalize_spaces(text) == Strip(CollapseFrom(text, 1))

normalize_key(text) == Lower(normalize_spaces(text))

has_english(text) == \E i \in 1..Len(text) : text[i] \in AsciiLetters

RECURSIVE Decimal(_)
\* the decimal digits of n >= 0, as an f-string renders them
Decimal(n) ==
    IF n < 10 THEN <<DigitSeq[n + 1]>>
    ELSE Decimal(n \div 10) \o <<DigitSeq[(n % 10) + 1]>>

RECURSIVE ReplaceAllFrom(_, _, _, _)
\* str.replace(old, new) from position i: leftmost, non-overlapping
ReplaceAllFrom(text, i, old, new) ==
    Let({j \in i..Len(text) : OccursAt(text, j, old)}, LAMBDA hits :
        IF hits = {} THEN From(text, i)
        ELSE Let(Min(hits), LAMBDA j :
                 SubSeq(text, i, j - 1) \o new
                 \o ReplaceAllFrom(text, j + Len(old), old, new)))

RECURSIVE JoinWith(_, _)
\* sep.join(parts)
JoinWith(parts, sep) ==
    IF Len(parts) = 0 THEN <<>>
    ELSE IF Len(parts) = 1 THEN parts[1]
         ELSE parts[1] \o sep \o JoinWith(Tail(parts), sep)

\* ------------------------------------------------------------ protection patterns

\* PROTECT_PATTERNS, in order, by what each protects
PROTECT_PATTERNS == <<"fence", "inline", "url", "path", "flag", "constant">>

Fence == <<Backtick, Backtick, Backtick>>

\* ```[\s\S]*?``` at i: the end (exclusive) of the match, 0 when there is none
MatchFence(text, i) ==
    IF ~OccursAt(text, i, Fence) THEN 0
    ELSE LET closes == {j \in (i + 3)..Len(text) : OccursAt(text, j, Fence)}
         IN  IF closes = {} THEN 0 ELSE Min(closes) + 3

\* `[^`\n]+` at i
MatchInline(text, i) ==
    IF ~OccursAt(text, i, <<Backtick>>) THEN 0
    ELSE LET j == RunEndNot(text, i + 1, {Backtick, "\n"})
         IN  IF j > i + 1 /\ j <= Len(text) /\ text[j] = Backtick THEN j + 1 ELSE 0

\* https?://[^\s)\]>]+ at i
MatchUrl(text, i) ==
    LET body ==
            IF OccursAt(text, i, <<"h", "t", "t", "p", "s", ":", "/", "/">>) THEN i + 8
            ELSE IF OccursAt(text, i, <<"h", "t", "t", "p", ":", "/", "/">>) THEN i + 7
            ELSE 0
    IN  IF body = 0 THEN 0
        ELSE LET j == RunEndNot(text, body, Whitespace \cup {")", "]", ">"})
             IN  IF j > body THEN j ELSE 0

\* (?:^|(?<=\s))(?:~?/|\.{1,2}/|/|[A-Za-z]:\\)[^\s"'`<>|]* at i
MatchPath(text, i) ==
    IF ~(i = 1 \/ (i <= Len(text) + 1 /\ text[i - 1] \in Whitespace)) THEN 0
    ELSE LET body ==
                 IF OccursAt(text, i, <<"~", "/">>) THEN i + 2
                 ELSE IF OccursAt(text, i, <<"/">>) THEN i + 1
                 ELSE IF OccursAt(text, i, <<".", ".", "/">>) THEN i + 3
                 ELSE IF OccursAt(text, i, <<".", "/">>) THEN i + 2
                 ELSE IF /\ i + 2 <= Len(text)
                         /\ text[i] \in AsciiLetters
                         /\ text[i + 1] = ":"
                         /\ text[i + 2] = "\\"
                      THEN i + 3
                 ELSE 0
         IN  IF body = 0 THEN 0
             ELSE RunEndNot(text, body,
                            Whitespace \cup {"\"", "'", Backtick, "<", ">", "|"})

\* (?<!\w)--?[A-Za-z][\w-]* at i
MatchFlag(text, i) ==
    IF ~(i = 1 \/ text[i - 1] \notin WordChars) THEN 0
    ELSE IF ~OccursAt(text, i, <<"-">>) THEN 0
    ELSE LET body ==
                 IF /\ i + 2 <= Len(text)
                    /\ text[i + 1] = "-"
                    /\ text[i + 2] \in AsciiLetters
                 THEN i + 3
                 ELSE IF i + 1 <= Len(text) /\ text[i + 1] \in AsciiLetters
                      THEN i + 2
                 ELSE 0
         IN  IF body = 0 THEN 0
             ELSE RunEnd(text, body, WordChars \cup {"-"})

\* \b[A-Z_][A-Z0-9_]{2,}\b at i
MatchConstant(text, i) ==
    IF ~(i = 1 \/ text[i - 1] \notin WordChars) THEN 0
    ELSE IF ~(i <= Len(text) /\ text[i] \in AsciiUpper \cup {"_"}) THEN 0
    ELSE LET j == RunEnd(text, i + 1, AsciiUpper \cup Digits \cup {"_"})
         IN  IF j - (i + 1) >= 2 /\ (j = Len(text) + 1 \/ text[j] \notin WordChars)
             THEN j ELSE 0

\* pattern.match at position i of text: the end (exclusive), 0 for no match
MatchEnd(p, text, i) ==
    CASE p = "fence" -> MatchFence(text, i)
      [] p = "inline" -> MatchInline(text, i)
      [] p = "url" -> MatchUrl(text, i)
      [] p = "path" -> MatchPath(text, i)
      [] p = "flag" -> MatchFlag(text, i)
      [] p = "constant" -> MatchConstant(text, i)

\* ------------------------------------------------------------ ControlledTranslator: masking

\* f"⟪#{index}⟫"
Placeholder(index) == <<"⟪", "#">> \o Decimal(index) \o <<"⟫">>

\* replacer: the span is appended to the list, its placeholder is the result
replacer(span, protected) ==
    [out |-> Placeholder(Len(protected)), protected |-> Append(protected, span)]

RECURSIVE SubProtect(_, _, _, _, _)
\* pattern.sub(replacer, text) from position i: the text up to the leftmost
\* match is copied, the match replaced, and the scan goes on after the match
SubProtect(p, text, i, out, protected) ==
    Let({j \in i..Len(text) : MatchEnd(p, text, j) > 0}, LAMBDA hits :
        IF hits = {} THEN [out |-> out \o From(text, i), protected |-> protected]
        ELSE Let(Min(hits), LAMBDA j :
             Let(MatchEnd(p, text, j), LAMBDA e :
             Let(replacer(SubSeq(text, j, e - 1), protected), LAMBDA r :
                 SubProtect(p, text, e, out \o SubSeq(text, i, j - 1) \o r.out,
                            r.protected)))))

RECURSIVE ProtectFrom(_, _, _)
\* the loop over PROTECT_PATTERNS, from pattern k
ProtectFrom(k, out, protected) ==
    IF k > Len(PROTECT_PATTERNS) THEN [out |-> out, protected |-> protected]
    ELSE Let(SubProtect(PROTECT_PATTERNS[k], out, 1, <<>>, protected), LAMBDA r :
             ProtectFrom(k + 1, r.out, r.protected))

_protect(text) == ProtectFrom(1, text, <<>>)

RECURSIVE RestoreFrom(_, _, _)
\* the loop of _restore, from index down to 0
RestoreFrom(index, out, protected) ==
    IF index < 0 THEN out
    ELSE RestoreFrom(index - 1,
                     ReplaceAllFrom(out, 1, Placeholder(index), protected[index + 1]),
                     protected)

_restore(text, protected) == RestoreFrom(Len(protected) - 1, text, protected)

\* ------------------------------------------------------------ ControlledTranslator: overrides

\* the override item goes after every item whose source is at least as long:
\* sorted(..., key=len(source), reverse=True) is stable
InsertByLength(items, item) ==
    LET shorter == {j \in 1..Len(items) : Len(items[j].source) < Len(item.source)}
        at == IF shorter = {} THEN Len(items) + 1 ELSE Min(shorter)
    IN  SubSeq(items, 1, at - 1) \o <<item>> \o SubSeq(items, at, Len(items))

RECURSIVE SortByLength(_, _)
SortByLength(items, sorted) ==
    IF items = <<>> THEN sorted
    ELSE SortByLength(Tail(items), InsertByLength(sorted, Head(items)))

RECURSIVE OverrideItems(_)
\* (normalize_key(source), target) for the overrides whose source and target are not blank
OverrideItems(overrides) ==
    IF overrides = <<>> THEN <<>>
    ELSE LET o == Head(overrides)
         IN  (IF Strip(o.source) # <<>> /\ Strip(o.target) # <<>>
              THEN <<[source |-> normalize_key(o.source), target |-> o.target]>>
              ELSE <<>>) \o OverrideItems(Tail(overrides))

\* ControlledTranslator.__init__
ControlledTranslator(dictionary_map, overrides, min_phrase_words, max_phrase_words) ==
    [dictionary_map |-> dictionary_map,
     min_phrase_words |-> min_phrase_words,
     max_phrase_words |-> IF min_phrase_words > max_phrase_words
                          THEN min_phrase_words ELSE max_phrase_words,
     override_patterns |-> SortByLength(OverrideItems(overrides), <<>>)]

\* (?<![A-Za-z0-9_])source(?![A-Za-z0-9_]) with re.IGNORECASE at i: the end
\* (exclusive) of the match, 0 when there is none
MatchOverride(source, text, i) ==
    IF /\ (i = 1 \/ text[i - 1] \notin WordChars)
       /\ i + Len(source) - 1 <= Len(text)
       /\ \A k \in 1..Len(source) : LowerChar(text[i + k - 1]) = LowerChar(source[k])
       /\ (i + Len(source) > Len(text) \/ text[i + Len(source)] \notin WordChars)
    THEN i + Len(source)
    ELSE 0

RECURSIVE SubOverride(_, _, _, _)
\* pattern.sub(replacement, text) from position i
SubOverride(source, replacement, text, i) ==
    Let({j \in i..Len(text) : MatchOverride(source, text, j) > 0}, LAMBDA hits :
        IF hits = {} THEN From(text, i)
        ELSE Let(Min(hits), LAMBDA j :
                 SubSeq(text, i, j - 1) \o replacement
                 \o SubOverride(source, replacement, text,
                                MatchOverride(source, text, j))))

RECURSIVE OverridesFrom(_, _, _)
OverridesFrom(patterns, k, out) ==
    IF k > Len(patterns) THEN out
    ELSE OverridesFrom(patterns, k + 1,
                       SubOverride(patterns[k].source, patterns[k].target, out, 1))

_apply_overrides(self, text) == OverridesFrom(self.override_patterns, 1, text)

\* ------------------------------------------------------------ ControlledTranslator: dictionary

RECURSIVE TokenTail(_, _)
\* (?:[-'][A-Za-z0-9]+)* from j
TokenTail(text, j) ==
    IF j + 1 <= Len(text) /\ text[j] \in {"-", "'"} /\ text[j + 1] \in AsciiAlnum
    THEN TokenTail(text, RunEnd(text, j + 1, AsciiAlnum))
    ELSE j

\* TOKEN_RE at i: the end (exclusive) of the match, 0 when there is none
MatchToken(text, i) ==
    IF i <= Len(text) /\ text[i] \in AsciiLetters
    THEN TokenTail(text, RunEnd(text, i, AsciiLetters))
    ELSE 0

RECURSIVE TokensFrom(_, _)
\* list(TOKEN_RE.finditer(text)): each token by its first position and the
\* position after its last
TokensFrom(text, i) ==
    LET j == RunEndNot(text, i, AsciiLetters)
    IN  IF j > Len(text) THEN <<>>
        ELSE <<[start |-> j, end |-> MatchToken(text, j)]>>
             \o TokensFrom(text, MatchToken(text, j))

Tokens(text) == TokensFrom(text, 1)

\* tokens[idx].group(0), idx counted from 0
TokenText(text, tokens, idx) ==
    SubSeq(text, tokens[idx + 1].start, tokens[idx + 1].end - 1)

\* str.isspace()
IsSpace(text) == text # <<>> /\ \A i \in 1..Len(text) : text[i] \in Whitespace

_tokens_are_space_separated(text, tokens, start_index, end_index) ==
    \A idx \in start_index..(end_index - 1) :
        IsSpace(SubSeq(text, tokens[idx + 1].end, tokens[idx + 2].start - 1))

\* the candidate phrase of `window` tokens from index
Phrase(text, tokens, index, window) ==
    JoinWith([k \in 1..window |-> TokenText(text, tokens, index + k - 1)], <<" ">>)

\* self.dictionary_map.get(key), the empty text for None
DictionaryGet(self, key) ==
    IF key \in DOMAIN self.dictionary_map THEN self.dictionary_map[key] ELSE <<>>

NoMatch == [hit |-> FALSE]

RECURSIVE WindowLoop(_, _, _, _, _)
\* for window in range(max_window, min_phrase_words - 1, -1), from `window` down
WindowLoop(self, text, tokens, index, window) ==
    IF window < self.min_phrase_words THEN NoMatch
    ELSE LET end_index == index + window - 1
         IN  IF ~_tokens_are_space_separated(text, tokens, index, end_index)
             THEN WindowLoop(self, text, tokens, index, window - 1)
             ELSE Let(DictionaryGet(self, normalize_key(Phrase(text, tokens, index,
                                                                window))),
                      LAMBDA replacement :
                      IF replacement # <<>>
                      THEN [hit |-> TRUE,
                            start |-> tokens[index + 1].start,
                            end |-> tokens[end_index + 1].end,
                            replacement |-> replacement,
                            next_index |-> end_index + 1]
                      ELSE WindowLoop(self, text, tokens, index, window - 1))

\* a variant that tries the smallest window only
BestMatch_smallest_window(self, text, tokens, index) ==
    IF self.min_phrase_words > Len(tokens) - index THEN NoMatch
    ELSE WindowLoop(self, text, tokens, index, self.min_phrase_words)

\* best_match at index
BestMatch(self, text, tokens, index) ==
    LET max_window == IF self.max_phrase_words < Len(tokens) - index
                      THEN self.max_phrase_words ELSE Len(tokens) - index
    IN  WindowLoop(self, text, tokens, index, max_window)

\* the scanner's state when the while loop is entered; cursor is the position
\* of the next character of text to copy, index counts tokens from 0
ScanStart == [out_parts |-> <<>>, cursor |-> 1, index |-> 0]

\* one pass of the body of the while loop of _apply_dictionary
ScanStep(self, text, tokens, scan) ==
    Let(BestMatch(self, text, tokens, scan.index), LAMBDA best_match :
        IF ~best_match.hit
        THEN [scan EXCEPT !.index = scan.index + 1]
        ELSE [out_parts |-> scan.out_parts
                              \o <<SubSeq(text, scan.cursor, best_match.start - 1)>>
                              \o <<best_match.replacement>>,
              cursor |-> best_match.end,
              index |-> best_match.next_index])

\* out_parts.append(text[cursor:]); "".join(out_parts)
ScanFinish(text, scan) ==
    JoinWith(Append(scan.out_parts, From(text, scan.cursor)), <<>>)

RECURSIVE ScanLoop(_, _, _, _)
ScanLoop(self, text, tokens, scan) ==
    IF scan.index < Len(tokens)
    THEN ScanLoop(self, text, tokens, ScanStep(self, text, tokens, scan))
    ELSE scan

_apply_dictionary(self, text) ==
    Let(Tokens(text), LAMBDA tokens :
        IF tokens = <<>> THEN text
        ELSE ScanFinish(text, ScanLoop(self, text, tokens, ScanStart)))

\* ------------------------------------------------------------ ControlledTranslator.translate_text

translate_text(self, text) ==
    IF Strip(text) = <<>> \/ ~has_english(text) THEN text
    ELSE Let(_protect(text), LAMBDA protected :
             _restore(_apply_dictionary(self, _apply_overrides(self, protected.out)),
                      protected.protected))

\* ------------------------------------------------------------ JSON values

\* Optional values: None, or Some(v)
None == [some |-> FALSE]

Some(v) == [some |-> TRUE, v |-> v]

\* A parsed JSON value is tagged by its Python type: str, int, one of
\* None/True/False, dict (its items in insertion order, keys unique), list.
Str(s) == [t |-> "str", s |-> s]

Num(n) == [t |-> "num", n |-> n]

Lit(v) == [t |-> "lit", v |-> v]

Obj(items) == [t |-> "obj", items |-> items]

Arr(items) == [t |-> "arr", items |-> items]

\* isinstance(node, dict) and node.get(key): Some(value), or None
Get(node, key) ==
    IF node.t # "obj" THEN None
    ELSE LET at == {j \in 1..Len(node.items) : node.items[j].k = key}
         IN  IF at = {} THEN None ELSE Some(node.items[CHOOSE j \in at : TRUE].v)

\* dict[key] = value: a key already present keeps its place
SetItem(items, key, value) ==
    IF \E j \in 1..Len(items) : items[j].k = key
    THEN [j \in 1..Len(items) |->
              IF items[j].k = key THEN [k |-> key, v |-> value] ELSE items[j]]
    ELSE Append(items, [k |-> key, v |-> value])

\* ------------------------------------------------------------ json.loads

\* the whitespace the JSON decoder skips
JsonWhitespace == {" ", "\t", "\n", "\r"}

\* characters a JSON string may not hold unescaped (strict mode)
JsonControl == {"\t", "\n", "\r", "\f"}

ParseFail == [ok |-> FALSE]

\* the character an escape \c stands for, the empty text when the decoder
\* rejects the escape
Unescape(c) ==
    CASE c = "\"" -> <<"\"">>
      [] c = "\\" -> <<"\\">>
      [] c = "/" -> <<"/">>
      [] c = "n" -> <<"\n">>
      [] c = "r" -> <<"\r">>
      [] c = "t" -> <<"\t">>
      [] c = "f" -> <<"\f">>
      [] OTHER -> <<>>

RECURSIVE ParseStringBody(_, _, _)
\* the body of a string from j, up to its closing quote
ParseStringBody(text, j, acc) ==
    LET stop == RunEndNot(text, j, {"\"", "\\"} \cup JsonControl)
        now == acc \o SubSeq(text, j, stop - 1)
    IN  IF stop > Len(text) THEN ParseFail
        ELSE IF text[stop] = "\"" THEN [ok |-> TRUE, v |-> now, next |-> stop + 1]
        ELSE IF text[stop] = "\\"
             THEN IF stop + 1 <= Len(text) /\ Unescape(text[stop + 1]) # <<>>
                  THEN ParseStringBody(text, stop + 2, now \o Unescape(text[stop + 1]))
                  ELSE ParseFail
        ELSE ParseFail

RECURSIVE DigitsValue(_, _, _, _)
\* the value of the digits of text from i to j - 1, after acc
DigitsValue(text, i, j, acc) ==
    IF i >= j THEN acc
    ELSE DigitsValue(text, i + 1, j,
                     10 * acc + (CHOOSE d \in 0..9 : DigitSeq[d + 1] = text[i]))

\* a number at i: 0 or [1-9][0-9]* (no sign, fraction or exponent is modelled)
ParseNumber(text, i) ==
    LET j == IF text[i] = "0" THEN i + 1 ELSE RunEnd(text, i, Digits)
    IN  [ok |-> TRUE, v |-> Num(DigitsValue(text, i, j, 0)), next |-> j]

RECURSIVE ParseValue(_, _), ParseMembers(_, _, _), ParseElements(_, _, _)
\* the decoder's scan_once at i
ParseValue(text, i) ==
    IF i > Len(text) THEN ParseFail
    ELSE IF text[i] = "\""
         THEN LET r == ParseStringBody(text, i + 1, <<>>)
              IN  IF r.ok THEN [ok |-> TRUE, v |-> Str(r.v), next |-> r.next] ELSE ParseFail
    ELSE IF text[i] = "{"
         THEN LET j == RunEnd(text, i + 1, JsonWhitespace)
              IN  IF j <= Len(text) /\ text[j] = "}"
                  THEN [ok |-> TRUE, v |-> Obj(<<>>), next |-> j + 1]
                  ELSE ParseMembers(text, j, <<>>)
    ELSE IF text[i] = "["
         THEN LET j == RunEnd(text, i + 1, JsonWhitespace)
              IN  IF j <= Len(text) /\ text[j] = "]"
                  THEN [ok |-> TRUE, v |-> Arr(<<>>), next |-> j + 1]
                  ELSE ParseElements(text, j, <<>>)
    ELSE IF OccursAt(text, i, <<"n", "u", "l", "l">>) THEN [ok |-> TRUE, v |-> Lit("null"), next |-> i + 4]
    ELSE IF OccursAt(text, i, <<"t", "r", "u", "e">>) THEN [ok |-> TRUE, v |-> Lit("true"), next |-> i + 4]
    ELSE IF OccursAt(text, i, <<"f", "a", "l", "s", "e">>) THEN [ok |-> TRUE, v |-> Lit("false"), next |-> i + 5]
    ELSE IF text[i] \in Digits THEN ParseNumber(text, i)
    ELSE ParseFail

\* the members of an object from the key expected at i
ParseMembers(text, i, items) ==
    IF ~(i <= Len(text) /\ text[i] = "\"") THEN ParseFail
    ELSE LET key == ParseStringBody(text, i + 1, <<>>)
         IN  IF ~key.ok THEN ParseFail
             ELSE LET colon == RunEnd(text, key.next, JsonWhitespace)
                  IN  IF ~(colon <= Len(text) /\ text[colon] = ":") THEN ParseFail
                      ELSE LET value == ParseValue(text, RunEnd(text, colon + 1, JsonWhitespace))
                           IN  IF ~value.ok THEN ParseFail
                               ELSE LET j == RunEnd(text, value.next, JsonWhitespace)
                                        now == SetItem(items, key.v, value.v)
                                    IN  IF j > Len(text) THEN ParseFail
                                        ELSE IF text[j] = "}"
                                             THEN [ok |-> TRUE, v |-> Obj(now), next |-> j + 1]
                                        ELSE IF text[j] = ","
                                             THEN ParseMembers(text,
                                                      RunEnd(text, j + 1, JsonWhitespace), now)
                                        ELSE ParseFail

\* the elements of an array from the value expected at i
ParseElements(text, i, items) ==
    LET value == ParseValue(text, i)
    IN  IF ~value.ok THEN ParseFail
        ELSE LET j == RunEnd(text, value.next, JsonWhitespace)
                 now == Append(items, value.v)
             IN  IF j > Len(text) THEN ParseFail
                 ELSE IF text[j] = "]"
                      THEN [ok |-> TRUE, v |-> Arr(now), next |-> j + 1]
                 ELSE IF text[j] = ","
                      THEN ParseElements(text, RunEnd(text, j + 1, JsonWhitespace), now)
                 ELSE ParseFail

\* json.loads(content): Some(value), or None for json.JSONDecodeError
json_loads(content) ==
    LET r == ParseValue(content, RunEnd(content, 1, JsonWhitespace))
    IN  IF r.ok /\ RunEnd(content, r.next, JsonWhitespace) = Len(content) + 1
        THEN Some(r.v)
        ELSE None

\* ------------------------------------------------------------ json.dumps

\* the text json.dumps writes for one character of a string
EscapeChar(c) ==
    CASE c = "\"" -> <<"\\", "\"">>
      [] c = "\\" -> <<"\\", "\\">>
      [] c = "\n" -> <<"\\", "n">>
      [] c = "\r" -> <<"\\", "r">>
      [] c = "\t" -> <<"\\", "t">>
      [] c = "\f" -> <<"\\", "f">>
      [] OTHER -> <<c>>

RECURSIVE EscapeFrom(_, _)
EscapeFrom(text, i) ==
    LET j == RunEndNot(text, i, {"\"", "\\", "\n", "\r", "\t", "\f"})
    IN  IF j > Len(text) THEN From(text, i)
        ELSE SubSeq(text, i, j - 1) \o EscapeChar(text[j]) \o EscapeFrom(text, j + 1)

DumpString(text) == <<"\"">> \o EscapeFrom(text, 1) \o <<"\"">>

RECURSIVE json_dumps(_), DumpItems(_, _), DumpElements(_, _)
\* json.dumps(value, ensure_ascii=False, separators=(",", ":"))
json_dumps(value) ==
    CASE value.t = "str" -> DumpString(value.s)
      [] value.t = "num" -> Decimal(value.n)
      [] value.t = "lit" ->
            (CASE value.v = "null" -> <<"n", "u", "l", "l">>
               [] value.v = "true" -> <<"t", "r", "u", "e">>
               [] value.v = "false" -> <<"f", "a", "l", "s", "e">>)
      [] value.t = "obj" -> <<"{">> \o DumpItems(value.items, 1) \o <<"}">>
      [] value.t = "arr" -> <<"[">> \o DumpElements(value.items, 1) \o <<"]">>

DumpItems(items, j) ==
    IF j > Len(items) THEN <<>>
    ELSE DumpString(items[j].k) \o <<":">> \o json_dumps(items[j].v)
         \o (IF j < Len(items) THEN <<",">> ELSE <<>>) \o DumpItems(items, j + 1)

DumpElements(items, j) ==
    IF j > Len(items) THEN <<>>
    ELSE json_dumps(items[j])
         \o (IF j < Len(items) THEN <<",">> ELSE <<>>) \o DumpElements(items, j + 1)

\* ------------------------------------------------------------ field policy

TARGET_STATUS_KEYS ==
    {<<"s", "t", "a", "t", "u", "s", "_", "h", "e", "a", "d", "e", "r">>, <<"s", "t", "a", "t", "u", "s", "_", "d", "e", "t", "a", "i", "l", "s">>, <<"s", "t", "a", "t", "u", "s", "H", "e", "a", "d", "e", "r">>, <<"s", "t", "a", "t", "u", "s", "D", "e", "t", "a", "i", "l", "s">>}

TARGET_REASONING_KEYS ==
    {<<"d", "e", "l", "t", "a">>, <<"t", "e", "x", "t">>, <<"s", "u", "m", "m", "a", "r", "y">>, <<"s", "u", "m", "m", "a", "r", "y", "_", "t", "e", "x", "t">>, <<"s", "u", "m", "m", "a", "r", "y", "T", "e", "x", "t">>, <<"m", "e", "s", "s", "a", "g", "e">>}

TARGET_STATUS_EVENT_TYPES ==
    {<<"b", "a", "c", "k", "g", "r", "o", "u", "n", "d", "_", "e", "v", "e", "n", "t">>, <<"c", "o", "l", "l", "a", "b", "_", "w", "a", "i", "t", "i", "n", "g", "_", "b", "e", "g", "i", "n">>, <<"c", "o", "l", "l", "a", "b", "_", "w", "a", "i", "t", "i", "n", "g", "_", "e", "n", "d">>}

RESET_EVENT_TYPES ==
    {<<"a", "g", "e", "n", "t", "_", "r", "e", "a", "s", "o", "n", "i", "n", "g">>, <<"a", "g", "e", "n", "t", "_", "r", "e", "a", "s", "o", "n", "i", "n", "g", "_", "r", "a", "w", "_", "c", "o", "n", "t", "e", "n", "t">>,
     <<"a", "g", "e", "n", "t", "_", "r", "e", "a", "s", "o", "n", "i", "n", "g", "_", "s", "e", "c", "t", "i", "o", "n", "_", "b", "r", "e", "a", "k">>, <<"t", "a", "s", "k", "_", "c", "o", "m", "p", "l", "e", "t", "e">>, <<"t", "u", "r", "n", "_", "c", "o", "m", "p", "l", "e", "t", "e">>}

\* isinstance(v, str), v an Optional JSON value
IsStr(v) == v.some /\ v.v.t = "str"

\* isinstance(v, dict), v an Optional JSON value
IsDict(v) == v.some /\ v.v.t = "obj"

\* the type a dict declares through msg: msg.type
MsgType(holder) ==
    LET msg == Get(holder, <<"m", "s", "g">>)
    IN  IF IsDict(msg) /\ IsStr(Get(msg.v, <<"t", "y", "p", "e">>)) THEN Some(Get(msg.v, <<"t", "y", "p", "e">>).v.s)
        ELSE None

detect_event_type(node) ==
    IF node.t # "obj" THEN None
    ELSE IF IsStr(Get(node, <<"t", "y", "p", "e">>)) THEN Some(Get(node, <<"t", "y", "p", "e">>).v.s)
    ELSE IF IsDict(Get(node, <<"p", "a", "y", "l", "o", "a", "d">>)) /\ MsgType(Get(node, <<"p", "a", "y", "l", "o", "a", "d">>).v).some
         THEN MsgType(Get(node, <<"p", "a", "y", "l", "o", "a", "d">>).v)
    ELSE MsgType(node)

\* isinstance(v, str) and v
IsNonEmptyStr(v) == IsStr(v) /\ v.v.s # <<>>

\* a variant that takes an empty string for an id
extract_record_id_any_string(node) ==
    IF node.t # "obj" THEN None
    ELSE IF IsDict(Get(node, <<"p", "a", "y", "l", "o", "a", "d">>)) /\ IsStr(Get(Get(node, <<"p", "a", "y", "l", "o", "a", "d">>).v, <<"i", "d">>))
         THEN Some(Get(Get(node, <<"p", "a", "y", "l", "o", "a", "d">>).v, <<"i", "d">>).v.s)
    ELSE IF IsStr(Get(node, <<"i", "d">>)) THEN Some(Get(node, <<"i", "d">>).v.s)
    ELSE IF IsStr(Get(node, <<"i", "t", "e", "m", "_", "i", "d">>)) THEN Some(Get(node, <<"i", "t", "e", "m", "_", "i", "d">>).v.s)
    ELSE None

extract_record_id(node) ==
    IF node.t # "obj" THEN None
    ELSE IF IsDict(Get(node, <<"p", "a", "y", "l", "o", "a", "d">>)) /\ IsNonEmptyStr(Get(Get(node, <<"p", "a", "y", "l", "o", "a", "d">>).v, <<"i", "d">>))
         THEN Some(Get(Get(node, <<"p", "a", "y", "l", "o", "a", "d">>).v, <<"i", "d">>).v.s)
    ELSE IF IsNonEmptyStr(Get(node, <<"i", "d">>)) THEN Some(Get(node, <<"i", "d">>).v.s)
    ELSE IF IsNonEmptyStr(Get(node, <<"i", "t", "e", "m", "_", "i", "d">>)) THEN Some(Get(node, <<"i", "t", "e", "m", "_", "i", "d">>).v.s)
    ELSE None

\* a variant that leaves out the ancestor path
should_translate_field_no_path(key, event_type, parent_path) ==
    \/ key \in TARGET_STATUS_KEYS
    \/ /\ event_type.some /\ event_type.v # <<>>
       /\ \/ /\ Contains(Lower(event_type.v), <<"r", "e", "a", "s", "o", "n", "i", "n", "g">>)
             /\ key \in TARGET_REASONING_KEYS
          \/ /\ Lower(event_type.v) \in TARGET_STATUS_EVENT_TYPES
             /\ key \in {<<"m", "e", "s", "s", "a", "g", "e">>, <<"t", "e", "x", "t">>, <<"d", "e", "l", "t", "a">>}

should_translate_field(key, event_type, parent_path) ==
    IF key \in TARGET_STATUS_KEYS THEN TRUE
    ELSE IF /\ event_type.some /\ event_type.v # <<>>
            /\ \/ /\ Contains(Lower(event_type.v), <<"r", "e", "a", "s", "o", "n", "i", "n", "g">>)
                  /\ key \in TARGET_REASONING_KEYS
               \/ /\ Lower(event_type.v) \in TARGET_STATUS_EVENT_TYPES
                  /\ key \in {<<"m", "e", "s", "s", "a", "g", "e">>, <<"t", "e", "x", "t">>, <<"d", "e", "l", "t", "a">>}
         THEN TRUE
    ELSE IF key \in {<<"s", "t", "a", "t", "u", "s", "_", "h", "e", "a", "d", "e", "r">>, <<"s", "t", "a", "t", "u", "s", "_", "d", "e", "t", "a", "i", "l", "s">>} THEN TRUE
    ELSE /\ Contains(Lower(JoinWith(parent_path, <<".">>)), <<"o", "r", "c", "h", "e", "s", "t", "r", "a", "t", "i", "o", "n">>)
         /\ key \in {<<"m", "e", "s", "s", "a", "g", "e">>, <<"t", "e", "x", "t">>, <<"d", "e", "l", "t", "a">>}

\* ------------------------------------------------------------ DeltaAccumulator

\* self.buffers[key] = value
Store(buffers, key, value) ==
    [k \in DOMAIN buffers \cup {key} |-> IF k = key THEN value ELSE buffers[k]]

\* self.buffers.get(key, "")
BufferGet(buffers, key) == IF key \in DOMAIN buffers THEN buffers[key] ELSE <<>>

\* a variant that translates the new fragment alone
rewrite_to_full_buffer_fragment_only(buffers, stream_key, delta, translator) ==
    LET full_source == BufferGet(buffers, stream_key) \o delta
    IN  [buffers |-> Store(buffers, stream_key, full_source),
         result |-> translate_text(translator, delta)]

\* the buffers after the call, and the text it returns
rewrite_to_full_buffer(buffers, stream_key, delta, translator) ==
    LET full_source == BufferGet(buffers, stream_key) \o delta
    IN  [buffers |-> Store(buffers, stream_key, full_source),
         result |-> translate_text(translator, full_source)]

\* a variant that deletes nothing
clear_by_record_id_keeps_all(buffers, record_id) == buffers

\* the buffers after the call
clear_by_record_id(buffers, record_id) ==
    LET prefix == record_id \o <<"|">>
    IN  [k \in {key \in DOMAIN buffers : ~StartsWith(key, prefix)} |-> buffers[k]]

\* ------------------------------------------------------------ the walker

\* f"{record_id}|{node_event_type}|{'.'.join([*current_path, key])}"
StreamKey(record_id, node_event_type, current_path, key) ==
    record_id \o <<"|">> \o node_event_type \o <<"|">> \o JoinWith(Append(current_path, key), <<".">>)

should_expand_delta(delta_mode, key, node_event_type, record_id) ==
    /\ delta_mode = "full-buffer"
    /\ key = <<"d", "e", "l", "t", "a">>
    /\ node_event_type.some
    /\ \/ Contains(Lower(node_event_type.v), <<"r", "e", "a", "s", "o", "n", "i", "n", "g">>)
       \/ Lower(node_event_type.v) \in TARGET_STATUS_EVENT_TYPES
    /\ record_id.some

\* detect_event_type(node) or inherited_event_type
NodeEventType(node, inherited_event_type) ==
    LET detected == detect_event_type(node)
    IN  IF detected.some /\ detected.v # <<>> THEN detected ELSE inherited_event_type

\* One string field the policy sends to the translator.  The walker's result
\* carries, beside the value it builds and the buffers it leaves, the list of
\* these fields in the order they were met (`calls`): which key, under which
\* event type and path, with which value, through the accumulator or not.
TranslateField(key, value, translator, buffers, delta_mode, record_id, node_event_type, current_path) ==
    IF should_expand_delta(delta_mode, key, node_event_type, record_id)
    THEN Let(StreamKey(record_id.v, node_event_type.v, current_path, key),
             LAMBDA stream_key :
         Let(rewrite_to_full_buffer(buffers, stream_key, value, translator), LAMBDA r :
             [out |-> Str(r.result), buffers |-> r.buffers,
              calls |-> <<[key |-> key, event_type |-> node_event_type,
                           path |-> current_path, value |-> value, expanded |-> TRUE,
                           stream_key |-> stream_key, result |-> r.result]>>]))
    ELSE Let(translate_text(translator, value), LAMBDA result :
             [out |-> Str(result), buffers |-> buffers,
              calls |-> <<[key |-> key, event_type |-> node_event_type,
                           path |-> current_path, value |-> value, expanded |-> FALSE,
                           stream_key |-> <<>>, result |-> result]>>])

RECURSIVE translate_json_node(_, _, _, _, _, _, _), WalkItems(_, _, _, _, _, _, _, _, _),
          WalkElements(_, _, _, _, _, _, _, _, _)
translate_json_node(node, translator, buffers, delta_mode, record_id, inherited_event_type, path) ==
    Let(NodeEventType(node, inherited_event_type), LAMBDA node_event_type :
    Let([out |-> <<>>, buffers |-> buffers, calls |-> <<>>], LAMBDA start :
        IF node.t = "obj"
        THEN Let(WalkItems(node.items, 1, start, translator, delta_mode, record_id,
                           node_event_type, path, node), LAMBDA r :
                 [out |-> Obj(r.out), buffers |-> r.buffers, calls |-> r.calls])
        ELSE IF node.t = "arr"
        THEN Let(WalkElements(node.items, 1, start, translator, delta_mode, record_id,
                              node_event_type, path, node), LAMBDA r :
                 [out |-> Arr(r.out), buffers |-> r.buffers, calls |-> r.calls])
        ELSE [out |-> node, buffers |-> buffers, calls |-> <<>>]))

\* for key, value in node.items(), from item j; acc is what the loop has built
WalkItems(items, j, acc, translator, delta_mode, record_id, node_event_type, current_path, node) ==
    IF j > Len(items) THEN acc
    ELSE LET key == items[j].k
             value == items[j].v
         IN  Let(IF value.t = "str"
                    /\ should_translate_field(key, node_event_type, current_path)
                 THEN TranslateField(key, value.s, translator, acc.buffers, delta_mode,
                                     record_id, node_event_type, current_path)
                 ELSE translate_json_node(value, translator, acc.buffers, delta_mode,
                                          record_id, node_event_type,
                                          Append(current_path, key)),
                 LAMBDA r :
                 WalkItems(items, j + 1,
                           [out |-> SetItem(acc.out, key, r.out),
                            buffers |-> r.buffers,
                            calls |-> acc.calls \o r.calls],
                           translator, delta_mode, record_id, node_event_type,
                           current_path, node))

\* a variant that translates the strings of an array
WalkElements_translating_strings(items, j, acc, translator, delta_mode, record_id, node_event_type, current_path, node) ==
    IF j > Len(items) THEN acc
    ELSE Let(IF items[j].t = "str"
             THEN [out |-> Str(translate_text(translator, items[j].s)),
                   buffers |-> acc.buffers, calls |-> <<>>]
             ELSE translate_json_node(items[j], translator, acc.buffers, delta_mode,
                                      record_id, node_event_type, current_path),
             LAMBDA r :
             WalkElements(items, j + 1,
                          [out |-> Append(acc.out, r.out),
                           buffers |-> r.buffers,
                           calls |-> acc.calls \o r.calls],
                          translator, delta_mode, record_id, node_event_type,
                          current_path, node))

\* [translate_json_node(item, ...) for item in node], from item j
WalkElements(items, j, acc, translator, delta_mode, record_id, node_event_type, current_path, node) ==
    IF j > Len(items) THEN acc
    ELSE Let(translate_json_node(items[j], translator, acc.buffers, delta_mode,
                                 record_id, node_event_type, current_path), LAMBDA r :
             WalkElements(items, j + 1,
                          [out |-> Append(acc.out, r.out),
                           buffers |-> r.buffers,
                           calls |-> acc.calls \o r.calls],
                          translator, delta_mode, record_id, node_event_type,
                          current_path, node))

\* ------------------------------------------------------------ process_line

\* line.rstrip("\n")
RStripNewlines(line) ==
    LET keep == {j \in 1..Len(line) : line[j] # "\n"}
    IN  IF keep = {} THEN <<>> ELSE SubSeq(line, 1, Max(keep))

\* "\n" if line.endswith("\n") else ""
NewlineOf(line) == IF Len(line) > 0 /\ line[Len(line)] = "\n" THEN <<"\n">> ELSE <<>>

should_try_json(mode, content) ==
    /\ mode \in {"auto", "jsonl"}
    /\ StartsWith(Strip(content), <<"{">>) \/ StartsWith(Strip(content), <<"[">>)

\* what the branches of process_line that parse nothing leave of the JSON branch
NotParsed(buffers) ==
    [parsed |-> None, translated |-> None, calls |-> <<>>, cleared |-> None,
     record_id |-> None, kept |-> buffers]

\* the else branch of the try of process_line: the line parsed
process_line_json(parsed, content, newline, translator, buffers, delta_mode, counted) ==
    Let(detect_event_type(parsed.v), LAMBDA event_type :
    Let(extract_record_id(parsed.v), LAMBDA record_id :
    Let(/\ delta_mode = "full-buffer"
        /\ record_id.some
        /\ event_type.some
        /\ event_type.v \in RESET_EVENT_TYPES, LAMBDA clears :
    Let(IF clears THEN clear_by_record_id(buffers, record_id.v) ELSE buffers,
        LAMBDA cleared :
    Let(translate_json_node(parsed.v, translator, cleared, delta_mode, record_id, None,
                            <<>>), LAMBDA walked :
    Let(json_dumps(walked.out), LAMBDA encoded :
        [out |-> encoded \o newline,
         buffers |-> walked.buffers,
         stats |-> [counted EXCEPT
                       !.translated_strings = IF encoded # content THEN @ + 1 ELSE @,
                       !.json_records = @ + 1],
         path |-> "json",
         parsed |-> parsed,
         translated |-> Some(walked.out),
         calls |-> walked.calls,
         cleared |-> IF clears THEN record_id ELSE None,
         record_id |-> record_id,
         kept |-> cleared]))))))

\* a variant that translates the line in jsonl mode too
process_line_text_in_every_mode(line, content, newline, translator, buffers, mode, counted) ==
    Let(translate_text(translator, content), LAMBDA translated_text :
        [out |-> translated_text \o newline,
         buffers |-> buffers,
         stats |-> [counted EXCEPT
                       !.translated_strings =
                           IF translated_text # content THEN @ + 1 ELSE @],
         path |-> "text"] @@ NotParsed(buffers))

\* process_line when the line was not tried as JSON or did not parse
process_line_text(line, content, newline, translator, buffers, mode, counted) ==
    IF mode = "jsonl"
    THEN [out |-> line, buffers |-> buffers, stats |-> counted, path |-> "passthrough"]
         @@ NotParsed(buffers)
    ELSE Let(translate_text(translator, content), LAMBDA translated_text :
             [out |-> translated_text \o newline,
              buffers |-> buffers,
              stats |-> [counted EXCEPT
                            !.translated_strings =
                                IF translated_text # content THEN @ + 1 ELSE @],
              path |-> "text"] @@ NotParsed(buffers))

\* What process_line returns for `line` and the state it leaves, from the
\* buffers and counters it is called with.  `path` names the return statement
\* taken; parsed, translated, calls, record_id, cleared (the record id whose
\* buffers were cleared) and kept (the buffers the walker started from) record
\* what the JSON branch did.
process_line(line, translator, buffers, mode, delta_mode, stats) ==
    LET counted == [stats EXCEPT !.lines = stats.lines + 1]
        newline == NewlineOf(line)
    IN  Let(RStripNewlines(line), LAMBDA content :
        Let(IF should_try_json(mode, content) THEN json_loads(content) ELSE None,
            LAMBDA parsed :
            IF parsed.some
            THEN process_line_json(parsed, content, newline, translator, buffers,
                                   delta_mode, counted)
            ELSE process_line_text(line, content, newline, translator, buffers, mode,
                                   counted)))

\* ------------------------------------------------------------ start-up

\* out[key] = value for the items of data whose value is a string
StringItems(items) ==
    LET kept == SelectSeq(items, LAMBDA f : f.v.t = "str")
    IN  [j \in 1..Len(kept) |-> [source |-> kept[j].k, target |-> kept[j].v.s]]

\* load_overrides(path), file being the text of the file at path (None when no
\* file exists there): the overrides it returns, or the exception it raises
load_overrides(file) ==
    IF ~file.some THEN [raised |-> None, out |-> <<>>]
    ELSE Let(json_loads(file.v), LAMBDA data :
             IF ~data.some THEN [raised |-> Some("JSONDecodeError"), out |-> <<>>]
             ELSE IF data.v.t # "obj" THEN [raised |-> Some("ValueError"), out |-> <<>>]
             ELSE [raised |-> None, out |-> StringItems(data.v.items)])

\* ------------------------------------------------------------ state

VARIABLES
    overrides_file, \* the text of the file at args.overrides, None when there is none
    main_at,       \* where main stands: "start", "loop", or "raised" once an
                   \* exception has left it
    raised,        \* the exception that left main
    mode,          \* args.mode
    delta_mode,    \* args.delta_mode
    translator,    \* the ControlledTranslator main builds
    buffers,       \* delta_accumulator.buffers
    stats,         \* TranslationStats
    line,          \* the line read last
    out,           \* what was written to stdout last
    written,       \* how many times stdout was written to
    last,          \* what process_line did with the line read last
    prov,          \* for each buffer, the fragments appended to it, the lines they
                   \* came with and the record ids of those lines
    resets,        \* for each record id, the line of its latest reset and how many
                   \* buffers that reset deleted
    run,           \* the run of successive lines feeding one stream: its fragments,
                   \* which of its lines were resets, and the value emitted last
    pc,            \* where a call of translate_text stands
    text,          \* the text translate_text was called with
    masked,        \* what _protect returned: the masked text and the spans
    overridden,    \* what _apply_overrides returned
    tokens,        \* the tokens of _apply_dictionary
    scan,          \* out_parts, cursor and index of _apply_dictionary
    translated,    \* what _apply_dictionary returned
    result         \* what translate_text returned

lineVars == <<mode, delta_mode, buffers, stats, line, out, written, last, prov, resets, run>>

callVars == <<pc, text, masked, overridden, tokens, scan, translated, result>>

startVars == <<overrides_file, main_at, raised>>

vars == <<translator, startVars, lineVars, callVars>>

\* ------------------------------------------------------------ inputs

\* the most lines read in one run
MaxLines == 3

DefaultMinPhraseWords == 2

DefaultMaxPhraseWords == 8

\* the dictionary load_dictionary returns: normalized plain English keys, non-empty targets
LineDictionary == (<<"a", "b", " ", "c", "d">> :> <<"X">>) @@ (<<"a", "b", " ", "c", "d", " ", "a", "b">> :> <<"Y">>)

\* the translator main builds when no overrides file exists
LineTranslator ==
    ControlledTranslator(LineDictionary, <<>>, DefaultMinPhraseWords, DefaultMaxPhraseWords)

Field(k, v) == [k |-> k, v |-> v]

\* {"type": event_type, "id": record_id, "delta": fragment}
DeltaDoc(event_type, record_id, fragment) ==
    Obj(<<Field(<<"t", "y", "p", "e">>, Str(event_type)), Field(<<"i", "d">>, Str(record_id)),
          Field(<<"d", "e", "l", "t", "a">>, Str(fragment))>>)

\* a line holding the compact encoding of a JSON value
LineOf(value) == json_dumps(value) \o <<"\n">>

RecordIds == {<<"r">>, <<"s">>}

Fragments == {<<"a", "b", " ">>, <<"c", "d">>}

\* the lines of a stream of deltas and resets
StreamLines ==
    {LineOf(DeltaDoc(<<"a", "g", "e", "n", "t", "_", "r", "e", "a", "s", "o", "n", "i", "n", "g", "_", "d", "e", "l", "t", "a">>, <<"r">>, f)) : f \in Fragments}
    \cup {LineOf(DeltaDoc(<<"a", "g", "e", "n", "t", "_", "r", "e", "a", "s", "o", "n", "i", "n", "g">>, <<"r">>, f)) : f \in Fragments}
    \cup {LineOf(DeltaDoc(<<"a", "g", "e", "n", "t", "_", "r", "e", "a", "s", "o", "n", "i", "n", "g", "_", "d", "e", "l", "t", "a">>, <<"s">>, <<"c", "d">>))}
    \cup {LineOf(Obj(<<Field(<<"t", "y", "p", "e">>, Str(<<"t", "a", "s", "k", "_", "c", "o", "m", "p", "l", "e", "t", "e">>)), Field(<<"i", "d">>, Str(r))>>)) :
             r \in RecordIds}
    \cup {LineOf(Obj(<<Field(<<"t", "y", "p", "e">>, Str(<<"a", "g", "e", "n", "t", "_", "r", "e", "a", "s", "o", "n", "i", "n", "g", "_", "d", "e", "l", "t", "a">>)),
                       Field(<<"d", "e", "l", "t", "a">>, Str(<<"a", "b", " ", "c", "d">>))>>)),
          LineOf(Obj(<<Field(<<"t", "y", "p", "e">>, Str(<<"a", "g", "e", "n", "t", "_", "r", "e", "a", "s", "o", "n", "i", "n", "g", "_", "d", "e", "l", "t", "a">>)),
                       Field(<<"i", "d">>, Str(<<>>)), Field(<<"d", "e", "l", "t", "a">>, Str(<<"c", "d">>))>>)),
          LineOf(Obj(<<Field(<<"t", "y", "p", "e">>, Str(<<"b", "a", "c", "k", "g", "r", "o", "u", "n", "d", "_", "e", "v", "e", "n", "t">>)),
                       Field(<<"i", "t", "e", "m", "_", "i", "d">>, Str(<<"r">>)), Field(<<"d", "e", "l", "t", "a">>, Str(<<"c", "d">>))>>)),
          LineOf(Obj(<<Field(<<"t", "y", "p", "e">>, Str(<<"t", "u", "r", "n", "_", "c", "o", "m", "p", "l", "e", "t", "e">>)), Field(<<"i", "d">>, Str(<<"r">>)),
                       Field(<<"i", "t", "e", "m">>, Obj(<<Field(<<"t", "y", "p", "e">>, Str(<<"a", "g", "e", "n", "t", "_", "r", "e", "a", "s", "o", "n", "i", "n", "g", "_", "d", "e", "l", "t", "a">>)),
                                            Field(<<"d", "e", "l", "t", "a">>, Str(<<"c", "d">>))>>))>>)),
          LineOf(Obj(<<Field(<<"p", "a", "y", "l", "o", "a", "d">>,
                             Obj(<<Field(<<"i", "d">>, Str(<<"s">>)),
                                   Field(<<"m", "s", "g">>, Obj(<<Field(<<"t", "y", "p", "e">>, Str(<<"a", "g", "e", "n", "t", "_", "r", "e", "a", "s", "o", "n", "i", "n", "g", "_", "d", "e", "l", "t", "a">>)),
                                                       Field(<<"d", "e", "l", "t", "a">>, Str(<<"c", "d">>))>>))>>))>>))}

\* ------------------------------------------------------------ the line loop

NoRun == [on |-> FALSE]

\* no call of translate_text is being followed
NoCall ==
    /\ pc = "idle"
    /\ text = <<>>
    /\ masked = [out |-> <<>>, protected |-> <<>>]
    /\ overridden = <<>>
    /\ tokens = <<>>
    /\ scan = ScanStart
    /\ translated = <<>>
    /\ result = <<>>

\* the state in which main enters its loop over sys.stdin
Init ==
    /\ overrides_file = None
    /\ main_at = "loop"
    /\ raised = None
    /\ mode \in {"auto", "jsonl", "text"}
    /\ delta_mode \in {"full-buffer", "chunk"}
    /\ translator = LineTranslator
    /\ buffers = <<>>
    /\ stats = [lines |-> 0, translated_strings |-> 0, json_records |-> 0]
    /\ line = <<>>
    /\ out = <<>>
    /\ written = 0
    /\ last = [path |-> "none", parsed |-> None, translated |-> None, calls |-> <<>>,
               cleared |-> None, record_id |-> None]
    /\ prov = <<>>
    /\ resets = <<>>
    /\ run = NoRun
    /\ NoCall

\* the calls of a line that went through the accumulator
Expanded(calls) == SelectSeq(calls, LAMBDA c : c.expanded)

\* the calls of a line that appended to the buffer `key`
Feeding(calls, key) == SelectSeq(calls, LAMBDA c : c.expanded /\ c.stream_key = key)

\* the values of a sequence of calls
Values(calls) == [j \in 1..Len(calls) |-> calls[j].value]

\* one pass of the loop of main: sys.stdout.write(process_line(line, ...))
ProcessLine(l) ==
    /\ main_at = "loop"
    /\ stats.lines < MaxLines
    /\ \E r \in {process_line(l, translator, buffers, mode, delta_mode, stats)} :
         \E fed \in {Expanded(r.calls)} :
           /\ line' = l
           /\ out' = r.out
           /\ written' = written + 1
           /\ buffers' = r.buffers
           /\ stats' = r.stats
           /\ last' = [path |-> r.path, parsed |-> r.parsed, translated |-> r.translated,
                       calls |-> r.calls, cleared |-> r.cleared, record_id |-> r.record_id]
           /\ prov' = [k \in DOMAIN r.buffers |->
                          LET feeding == Feeding(r.calls, k)
                              before == IF k \in DOMAIN r.kept THEN prov[k]
                                        ELSE [fragments |-> <<>>, lines |-> <<>>, rids |-> {}]
                          IN  [fragments |-> before.fragments \o Values(feeding),
                               lines |-> before.lines
                                         \o [j \in 1..Len(feeding) |-> r.stats.lines],
                               rids |-> IF feeding = <<>> THEN before.rids
                                        ELSE before.rids \cup {r.record_id.v}]]
           /\ resets' = IF r.cleared.some
                        THEN [k \in DOMAIN resets \cup {r.cleared.v} |->
                                 IF k = r.cleared.v
                                 THEN [line |-> r.stats.lines,
                                       dropped |-> Cardinality(DOMAIN buffers
                                                               \ DOMAIN r.kept)]
                                 ELSE resets[k]]
                        ELSE resets
           /\ run' = IF Len(fed) # 1 THEN NoRun
                     ELSE LET c == fed[1]
                              stream == [record_id |-> r.record_id.v,
                                         event_type |-> c.event_type.v,
                                         path |-> Append(c.path, c.key)]
                          IN  IF run.on /\ run.stream = stream
                              THEN [on |-> TRUE, stream |-> stream,
                                    fragments |-> Append(run.fragments, c.value),
                                    reset |-> Append(run.reset, r.cleared.some),
                                    result |-> c.result]
                              ELSE IF c.stream_key \notin DOMAIN r.kept
                              THEN [on |-> TRUE, stream |-> stream,
                                    fragments |-> <<c.value>>,
                                    reset |-> <<r.cleared.some>>,
                                    result |-> c.result]
                              ELSE NoRun
    /\ UNCHANGED <<mode, delta_mode, translator, startVars, callVars>>

Next == \E l \in StreamLines : ProcessLine(l)

Spec == Init /\ [][Next]_vars

\* ------------------------------------------------------------ properties of the delta stream

\* the fragments of a run from its latest reset line on (all of them if it has none)
SinceReset(r) ==
    LET from == Max({1} \cup {j \in 1..Len(r.reset) : r.reset[j]})
    IN  JoinWith(SubSeq(r.fragments, from, Len(r.fragments)), <<>>)

\* C1, as the code has it.  In full-buffer mode, over successive lines that
\* carry fragments d1..dn in a delta field of one stream (same resolvable
\* record id, same delta-eligible event type, same field path), d1 being the
\* first fragment buffered for that stream, the value emitted for the n-th
\* line is translate(dk + ... + dn), where line k is the latest of these lines
\* whose top-level event type is in the reset set (k = 1 if there is none):
\* translate(d1 + ... + dn) when no line of the run is a reset, translate(dn)
\* alone when the n-th line itself is one.
C1_FullBufferSinceReset ==
    run.on => run.result = translate_text(translator, SinceReset(run))

\* two fragments that only together hold the phrase "ab cd" came in two
\* successive lines of one stream, neither a reset, and its translation was emitted
C1_Witness ==
    /\ run.on
    /\ run.fragments = <<<<"a", "b", " ">>, <<"c", "d">>>>
    /\ run.reset = <<FALSE, FALSE>>
    /\ run.result = <<"X">>

\* C1 as stated: the value emitted for the n-th line of a run is
\* translate(d1 + ... + dn) for every delta-eligible event type
C1_AsStated ==
    run.on => run.result = translate_text(translator, JoinWith(run.fragments, <<>>))

\* C2.  In full-buffer mode, once a line whose top-level event type is in the
\* reset set and whose record id is R has been processed, every buffer that
\* holds fragments of R holds only fragments that came with the reset line or
\* after it, and the value emitted for a delta of R is the translation of
\* such a buffer: nothing buffered for R before the reset survives.
C2_NoResidueAfterReset ==
    /\ \A k \in DOMAIN buffers :
          /\ buffers[k] = JoinWith(prov[k].fragments, <<>>)
          /\ \A R \in prov[k].rids \cap DOMAIN resets :
                \A j \in 1..Len(prov[k].lines) : prov[k].lines[j] >= resets[R].line
    /\ \A j \in 1..Len(last.calls) :
          LET c == last.calls[j]
          IN  (/\ c.expanded
               /\ \A i \in (j + 1)..Len(last.calls) :
                     ~(last.calls[i].expanded /\ last.calls[i].stream_key = c.stream_key))
              => c.result = translate_text(translator, buffers[c.stream_key])

\* a reset for a record deleted a buffer, and a later line of that record
\* put a fragment into a buffer again
C2_Witness ==
    \E R \in DOMAIN resets :
        /\ resets[R].dropped > 0
        /\ \E k \in DOMAIN buffers :
              /\ R \in prov[k].rids
              /\ prov[k].lines[1] > resets[R].line

\* none of payload.id, id, item_id of the record is a non-empty string
Unresolvable(node) ==
    \/ node.t # "obj"
    \/ /\ ~(/\ IsDict(Get(node, <<"p", "a", "y", "l", "o", "a", "d">>))
             /\ IsStr(Get(Get(node, <<"p", "a", "y", "l", "o", "a", "d">>).v, <<"i", "d">>))
             /\ Get(Get(node, <<"p", "a", "y", "l", "o", "a", "d">>).v, <<"i", "d">>).v.s # <<>>)
       /\ ~(IsStr(Get(node, <<"i", "d">>)) /\ Get(node, <<"i", "d">>).v.s # <<>>)
       /\ ~(IsStr(Get(node, <<"i", "t", "e", "m", "_", "i", "d">>)) /\ Get(node, <<"i", "t", "e", "m", "_", "i", "d">>).v.s # <<>>)

\* a delta field under an event type that contains "reasoning" or is a status event
DeltaEligible(c) ==
    /\ c.key = <<"d", "e", "l", "t", "a">>
    /\ c.event_type.some
    /\ \/ Contains(Lower(c.event_type.v), <<"r", "e", "a", "s", "o", "n", "i", "n", "g">>)
       \/ Lower(c.event_type.v) \in TARGET_STATUS_EVENT_TYPES

\* a line with a delta-eligible field, read in chunk mode or without a
\* resolvable record id, emits translate(fragment) and leaves the buffers alone
FragmentOnItsOwn ==
    \A after \in {last'} : \A j \in 1..Len(after.calls) : \A c \in {after.calls[j]} :
        (/\ DeltaEligible(c)
         /\ delta_mode = "chunk" \/ Unresolvable(after.parsed.v))
        => /\ c.result = translate_text(translator, c.value)
           /\ buffers' = buffers

\* C3.  When a delta-eligible field is processed and no record id is
\* resolvable (none of payload.id, top-level id, top-level item_id is a
\* non-empty string), or the delta mode is chunk, the fragment is translated
\* on its own and the line leaves the buffer map unchanged; in chunk mode the
\* buffer map is empty in every reachable state.
C3_DegradesToChunk ==
    /\ [][FragmentOnItsOwn]_vars
    /\ [](delta_mode = "chunk" => buffers = <<>>)

\* in full-buffer mode, with fragments buffered, a line whose id is the empty
\* string had its delta translated on its own
C3_Witness ==
    /\ delta_mode = "full-buffer"
    /\ buffers # <<>>
    /\ last.path = "json"
    /\ IsStr(Get(last.parsed.v, <<"i", "d">>))
    /\ Unresolvable(last.parsed.v)
    /\ \E j \in 1..Len(last.calls) :
          DeltaEligible(last.calls[j]) /\ last.calls[j].result = <<"c", "d">>

\* ------------------------------------------------------------ lines of every shape

\* what a line holds before its terminator: a record with a buffered delta, a
\* small record, a record cut short, an array that is none, plain text, an
\* unparseable line behind blanks, a record behind a form feed (blank for
\* str.strip, not for json.loads), and nothing
Bodies ==
    {json_dumps(DeltaDoc(<<"a", "g", "e", "n", "t", "_", "r", "e", "a", "s", "o", "n", "i", "n", "g", "_", "d", "e", "l", "t", "a">>, <<"r">>, <<"a", "b", " ">>)),
     <<"{", "\"", "a", "\"", ":", "1", "}">>,
     <<"{", "\"", "t", "y", "p", "e", "\"", ":", "\"", "a", "g", "e", "n", "t", "_", "r", "e", "a", "s", "o", "n", "i", "n", "g", "_", "d", "e", "l", "t", "a", "\"", ",", "\"", "i", "d", "\"", ":", "\"", "r", "\"", ",", "\"", "d", "e", "l", "t", "a", "\"", ":", "\"", "a", "b", " ", "c", "d", "\"">>,
     <<"[", "a", "b", " ", "c", "d">>,
     <<"a", "b", " ", "c", "d">>,
     <<" ", " ", "{", "a", "b", " ", "c", "d">>,
     <<"\f", "{", "\"", "a", "\"", ":", "1", "}">>,
     <<>>}

\* how a line iterated from sys.stdin ends: with "\n", with "\r\n", or, for
\* the last line of the input, with neither
Terminators == {<<"\n">>, <<"\r", "\n">>, <<>>}

\* sys.stdin never yields the empty line
ShapeLines == {b \o t : b \in Bodies, t \in Terminators} \ {<<>>}

NextLines == \E l \in ShapeLines : ProcessLine(l)

SpecLines == Init /\ [][NextLines]_vars

\* content.strip().startswith(("{", "[")), as a reader of the line sees it
LooksLikeJson(l) ==
    \E j \in 1..Len(l) :
        /\ l[j] \in {"{", "["}
        /\ \A i \in 1..(j - 1) : l[i] \in Whitespace

\* the line without the "\n"s that end it
Body(l) ==
    IF l = <<>> \/ \A j \in 1..Len(l) : l[j] = "\n" THEN <<>>
    ELSE SubSeq(l, 1, Max({j \in 1..Len(l) : l[j] # "\n"}))

\* a JSON-looking line that does not parse is passed through (jsonl) or
\* translated as text (auto); text mode parses nothing
MalformedLineStep ==
    /\ \A l \in {line'} : \A body \in {Body(l)} :
          (mode \in {"auto", "jsonl"} /\ LooksLikeJson(l) /\ ~json_loads(body).some)
          => /\ mode = "jsonl" => out' = l
             /\ mode = "auto" =>
                   out' = translate_text(translator, body)
                          \o (IF l[Len(l)] = "\n" THEN <<"\n">> ELSE <<>>)
             /\ written' = written + 1
             /\ buffers' = buffers
             /\ stats'.json_records = stats.json_records
             /\ stats'.lines = stats.lines + 1
    /\ mode = "text"
       => /\ last'.path = "text"
          /\ ~last'.parsed.some
          /\ stats'.json_records = 0

\* C4.  For every input line that looks like JSON (trimmed content starts
\* with { or [) but fails to parse: in jsonl mode the output is the input line
\* unchanged, in auto mode it is the whole-line text translation plus the
\* original newline; in both exactly one output is written, the stream
\* buffers and the json_records counter are unchanged, and the line is
\* counted like any other.  In text mode no line is ever parsed as JSON.
C4_MalformedJsonRecovered == [][MalformedLineStep]_vars

\* in auto mode, with a fragment buffered, the line "[ab cd" came and was
\* written as translated text
C4_Witness ==
    /\ mode = "auto"
    /\ buffers # <<>>
    /\ line = <<"[", "a", "b", " ", "c", "d", "\n">>
    /\ out = <<"[", "X", "\n">>
    /\ last.path = "text"

\* the bytes that end a line: "\r\n", "\n", or none
Terminator(l) ==
    IF Len(l) >= 2 /\ l[Len(l) - 1] = "\r" /\ l[Len(l)] = "\n" THEN <<"\r", "\n">>
    ELSE IF Len(l) >= 1 /\ l[Len(l)] = "\n" THEN <<"\n">>
    ELSE <<>>

\* C5 as stated: in every mode and on both paths the line terminator of the
\* output is byte for byte the line terminator of the input, a carriage
\* return before the newline included.
C5_TerminatorKept == written > 0 => Terminator(out) = Terminator(line)

\* ------------------------------------------------------------ records of every shape

\* the most records read in one run of the walker's corpus
MaxDocs == 2

Prose == Str(<<"a", "b", " ", "c", "d">>)

TypedDoc(event_type, key) == Obj(<<Field(<<"t", "y", "p", "e">>, Str(event_type)), Field(key, Prose)>>)

\* {"type": outer, "item": {"type": inner, key: "ab cd"}}
NestedDoc(outer, inner, key) ==
    Obj(<<Field(<<"t", "y", "p", "e">>, Str(outer)),
          Field(<<"i", "t", "e", "m">>, Obj(<<Field(<<"t", "y", "p", "e">>, Str(inner)), Field(key, Prose)>>))>>)

WalkTypes == {<<"a", "g", "e", "n", "t", "_", "r", "e", "a", "s", "o", "n", "i", "n", "g">>, <<"A", "g", "e", "n", "t", "_", "R", "e", "a", "s", "o", "n", "i", "n", "g", "_", "D", "e", "l", "t", "a">>, <<"b", "a", "c", "k", "g", "r", "o", "u", "n", "d", "_", "e", "v", "e", "n", "t">>,
              <<"B", "A", "C", "K", "G", "R", "O", "U", "N", "D", "_", "E", "V", "E", "N", "T">>, <<"e", "x", "e", "c">>}

WalkKeys == {<<"t", "e", "x", "t">>, <<"s", "u", "m", "m", "a", "r", "y">>, <<"s", "t", "a", "t", "u", "s", "D", "e", "t", "a", "i", "l", "s">>, <<"o", "t", "h", "e", "r">>}

WalkDocs ==
    {TypedDoc(e, k) : e \in WalkTypes, k \in WalkKeys}
    \cup {Obj(<<Field(k, Prose)>>) : k \in WalkKeys \cup {<<"s", "t", "a", "t", "u", "s", "_", "h", "e", "a", "d", "e", "r">>, <<"d", "e", "l", "t", "a">>}}
    \cup {NestedDoc(<<"a", "g", "e", "n", "t", "_", "r", "e", "a", "s", "o", "n", "i", "n", "g">>, inner, <<"t", "e", "x", "t">>) : inner \in {<<>>, <<"e", "x", "e", "c">>}}
    \cup {NestedDoc(<<"e", "x", "e", "c">>, inner, <<"m", "e", "s", "s", "a", "g", "e">>) : inner \in {<<>>, <<"b", "a", "c", "k", "g", "r", "o", "u", "n", "d", "_", "e", "v", "e", "n", "t">>}}
    \cup {\* a node that declares no type inherits through an object and an array
          Obj(<<Field(<<"t", "y", "p", "e">>, Str(<<"a", "g", "e", "n", "t", "_", "r", "e", "a", "s", "o", "n", "i", "n", "g">>)),
                Field(<<"i", "t", "e", "m">>, Obj(<<Field(<<"t", "e", "x", "t">>, Prose), Field(<<"n">>, Num(1))>>)),
                Field(<<"s", "u", "m", "m", "a", "r", "y">>, Arr(<<Prose, Obj(<<Field(<<"t", "e", "x", "t">>, Prose)>>), Num(1),
                                        Lit("null"), Lit("true")>>))>>),
          \* type that is no string; payload.msg.type before msg.type
          Obj(<<Field(<<"t", "y", "p", "e">>, Num(5)),
                Field(<<"p", "a", "y", "l", "o", "a", "d">>, Obj(<<Field(<<"m", "s", "g">>, Obj(<<Field(<<"t", "y", "p", "e">>,
                                                             Str(<<"a", "g", "e", "n", "t", "_", "r", "e", "a", "s", "o", "n", "i", "n", "g">>))>>))>>)),
                Field(<<"m", "s", "g">>, Obj(<<Field(<<"t", "y", "p", "e">>, Str(<<"e", "x", "e", "c">>))>>)),
                Field(<<"t", "e", "x", "t">>, Prose)>>),
          \* msg.type
          Obj(<<Field(<<"m", "s", "g">>, Obj(<<Field(<<"t", "y", "p", "e">>, Str(<<"b", "a", "c", "k", "g", "r", "o", "u", "n", "d", "_", "e", "v", "e", "n", "t">>)),
                                    Field(<<"t", "e", "x", "t">>, Prose)>>)),
                Field(<<"d", "e", "l", "t", "a">>, Prose), Field(<<"s", "u", "m", "m", "a", "r", "y">>, Prose)>>),
          \* an empty type hides msg.type
          Obj(<<Field(<<"t", "y", "p", "e">>, Str(<<>>)),
                Field(<<"m", "s", "g">>, Obj(<<Field(<<"t", "y", "p", "e">>, Str(<<"a", "g", "e", "n", "t", "_", "r", "e", "a", "s", "o", "n", "i", "n", "g">>))>>)),
                Field(<<"t", "e", "x", "t">>, Prose)>>),
          \* the ancestor path
          Obj(<<Field(<<"O", "r", "c", "h", "e", "s", "t", "r", "a", "t", "i", "o", "n", "_", "l", "o", "g">>,
                      Obj(<<Field(<<"s", "t", "e", "p">>, Obj(<<Field(<<"m", "e", "s", "s", "a", "g", "e">>, Prose),
                                                 Field(<<"s", "u", "m", "m", "a", "r", "y">>, Prose)>>)),
                            Field(<<"i", "t", "e", "m", "s">>, Arr(<<Obj(<<Field(<<"d", "e", "l", "t", "a">>, Prose)>>)>>))>>)),
                Field(<<"o", "r", "c", "h", "e", "s", "t", "r", "a", "t", "i", "o", "n">>, Prose), Field(<<"t", "e", "x", "t">>, Prose)>>),
          \* an array of records and strings
          Arr(<<TypedDoc(<<"a", "g", "e", "n", "t", "_", "r", "e", "a", "s", "o", "n", "i", "n", "g">>, <<"t", "e", "x", "t">>), Prose,
                Arr(<<Prose, Obj(<<Field(<<"s", "t", "a", "t", "u", "s", "_", "d", "e", "t", "a", "i", "l", "s">>, Prose)>>)>>)>>)}

WalkLines == {LineOf(d) : d \in WalkDocs}

NextWalk == stats.lines < MaxDocs /\ \E l \in WalkLines : ProcessLine(l)

SpecWalk == Init /\ [][NextWalk]_vars

RECURSIVE Untouched(_, _, _, _)
\* b has the shape of a, its non-string scalars, and its strings but for the
\* string values of object fields the policy selects
Untouched(a, b, inherited_event_type, path) ==
    IF a.t = "obj"
    THEN /\ b.t = "obj"
         /\ Len(b.items) = Len(a.items)
         /\ \A j \in 1..Len(a.items) :
               /\ b.items[j].k = a.items[j].k
               /\ IF a.items[j].v.t = "str"
                  THEN /\ b.items[j].v.t = "str"
                       /\ \/ b.items[j].v = a.items[j].v
                          \/ should_translate_field(a.items[j].k,
                                                    NodeEventType(a, inherited_event_type),
                                                    path)
                  ELSE Untouched(a.items[j].v, b.items[j].v,
                                 NodeEventType(a, inherited_event_type),
                                 Append(path, a.items[j].k))
    ELSE IF a.t = "arr"
    THEN /\ b.t = "arr"
         /\ Len(b.items) = Len(a.items)
         /\ \A j \in 1..Len(a.items) :
               IF a.items[j].t = "str" THEN b.items[j] = a.items[j]
               ELSE Untouched(a.items[j], b.items[j],
                              NodeEventType(a, inherited_event_type), path)
    ELSE b = a

\* C6.  For every parsed JSON value the walker's result is structurally
\* identical to its input: every object has the same keys in the same order,
\* every array the same length, every non-string scalar is unchanged, and
\* every string that is not the value of a policy-eligible object field
\* (strings that are array elements included) is unchanged.
C6_WalkerKeepsStructure ==
    last.path = "json" => Untouched(last.parsed.v, last.translated.v, None, <<>>)

\* a record with a nested object, an array of a string, a record and scalars
\* was walked: the eligible fields were translated, the array's string was not
C6_Witness ==
    /\ last.path = "json"
    /\ line = <<"{", "\"", "t", "y", "p", "e", "\"", ":", "\"", "a", "g", "e", "n", "t", "_", "r", "e", "a", "s", "o", "n", "i", "n", "g", "\"", ",", "\"", "i", "t", "e", "m", "\"", ":", "{", "\"", "t", "e", "x", "t", "\"", ":", "\"", "a", "b", " ", "c", "d", "\"", ",", "\"", "n", "\"", ":", "1", "}", ",", "\"", "s", "u", "m", "m", "a", "r", "y", "\"", ":", "[", "\"", "a", "b", " ", "c", "d", "\"", ",", "{", "\"", "t", "e", "x", "t", "\"", ":", "\"", "a", "b", " ", "c", "d", "\"", "}", ",", "1", ",", "n", "u", "l", "l", ",", "t", "r", "u", "e", "]", "}", "\n">>
    /\ out = <<"{", "\"", "t", "y", "p", "e", "\"", ":", "\"", "a", "g", "e", "n", "t", "_", "r", "e", "a", "s", "o", "n", "i", "n", "g", "\"", ",", "\"", "i", "t", "e", "m", "\"", ":", "{", "\"", "t", "e", "x", "t", "\"", ":", "\"", "X", "\"", ",", "\"", "n", "\"", ":", "1", "}", ",", "\"", "s", "u", "m", "m", "a", "r", "y", "\"", ":", "[", "\"", "a", "b", " ", "c", "d", "\"", ",", "{", "\"", "t", "e", "x", "t", "\"", ":", "\"", "X", "\"", "}", ",", "1", ",", "n", "u", "l", "l", ",", "t", "r", "u", "e", "]", "}", "\n">>

\* the type a node declares: type, else payload.msg.type, else msg.type
Declared(node) ==
    IF node.t # "obj" THEN None
    ELSE IF IsStr(Get(node, <<"t", "y", "p", "e">>)) THEN Some(Get(node, <<"t", "y", "p", "e">>).v.s)
    ELSE LET payload == Get(node, <<"p", "a", "y", "l", "o", "a", "d">>)
             inner == IF IsDict(payload) THEN Get(payload.v, <<"m", "s", "g">>) ELSE None
             msg == Get(node, <<"m", "s", "g">>)
         IN  IF IsDict(inner) /\ IsStr(Get(inner.v, <<"t", "y", "p", "e">>))
             THEN Some(Get(inner.v, <<"t", "y", "p", "e">>).v.s)
             ELSE IF IsDict(msg) /\ IsStr(Get(msg.v, <<"t", "y", "p", "e">>))
             THEN Some(Get(msg.v, <<"t", "y", "p", "e">>).v.s)
             ELSE None

\* the effective event type: as the claim states it, a declared type always
\* wins; in the code a declared empty string counts as none declared
Effective(node, inherited, stated) ==
    LET declared == Declared(node)
    IN  IF declared.some /\ (stated \/ declared.v # <<>>) THEN declared ELSE inherited

\* the policy: as the claim states it, the status-event set is matched as
\* written; in the code it is matched against the lower-cased type
Eligible(key, event_type, path, stated) ==
    \/ key \in {<<"s", "t", "a", "t", "u", "s", "_", "h", "e", "a", "d", "e", "r">>, <<"s", "t", "a", "t", "u", "s", "_", "d", "e", "t", "a", "i", "l", "s">>, <<"s", "t", "a", "t", "u", "s", "H", "e", "a", "d", "e", "r">>, <<"s", "t", "a", "t", "u", "s", "D", "e", "t", "a", "i", "l", "s">>}
    \/ /\ event_type.some
       /\ Contains(Lower(event_type.v), <<"r", "e", "a", "s", "o", "n", "i", "n", "g">>)
       /\ key \in {<<"d", "e", "l", "t", "a">>, <<"t", "e", "x", "t">>, <<"s", "u", "m", "m", "a", "r", "y">>, <<"s", "u", "m", "m", "a", "r", "y", "_", "t", "e", "x", "t">>, <<"s", "u", "m", "m", "a", "r", "y", "T", "e", "x", "t">>,
                   <<"m", "e", "s", "s", "a", "g", "e">>}
    \/ /\ event_type.some
       /\ (IF stated THEN event_type.v ELSE Lower(event_type.v))
             \in {<<"b", "a", "c", "k", "g", "r", "o", "u", "n", "d", "_", "e", "v", "e", "n", "t">>, <<"c", "o", "l", "l", "a", "b", "_", "w", "a", "i", "t", "i", "n", "g", "_", "b", "e", "g", "i", "n">>, <<"c", "o", "l", "l", "a", "b", "_", "w", "a", "i", "t", "i", "n", "g", "_", "e", "n", "d">>}
       /\ key \in {<<"m", "e", "s", "s", "a", "g", "e">>, <<"t", "e", "x", "t">>, <<"d", "e", "l", "t", "a">>}
    \/ /\ Contains(Lower(JoinWith(path, <<".">>)), <<"o", "r", "c", "h", "e", "s", "t", "r", "a", "t", "i", "o", "n">>)
       /\ key \in {<<"m", "e", "s", "s", "a", "g", "e">>, <<"t", "e", "x", "t">>, <<"d", "e", "l", "t", "a">>}

RECURSIVE FollowsPolicy(_, _, _, _, _)
\* every string-valued object field of a is, in b, translated if the policy
\* selects it and unchanged if not
FollowsPolicy(a, b, inherited, path, stated) ==
    IF a.t = "obj"
    THEN \A j \in 1..Len(a.items) :
            LET key == a.items[j].k
                value == a.items[j].v
                event_type == Effective(a, inherited, stated)
            IN  IF value.t = "str"
                THEN b.items[j].v =
                        IF Eligible(key, event_type, path, stated)
                        THEN Str(translate_text(translator, value.s))
                        ELSE value
                ELSE FollowsPolicy(value, b.items[j].v, event_type, Append(path, key),
                                   stated)
    ELSE IF a.t = "arr"
    THEN \A j \in 1..Len(a.items) :
            FollowsPolicy(a.items[j], b.items[j], inherited, path, stated)
    ELSE TRUE

\* C7, as the code has it.  A string-valued object field is translated if and
\* only if, first match winning: its key is in the status key set; or the
\* effective event type, lower-cased, contains "reasoning" and the key is in
\* the reasoning key set; or the effective event type, lower-cased, is in the
\* status-event set and the key is message, text or delta; or the joined
\* ancestor path, lower-cased, contains "orchestration" and the key is
\* message, text or delta.  The effective event type is the one the node
\* declares (type if it is a string, else payload.msg.type, else msg.type)
\* unless that is absent or the empty string, and then the one inherited.
C7_PolicyAsCoded ==
    last.path = "json" => FollowsPolicy(last.parsed.v, last.translated.v, None, <<>>, FALSE)

\* a record whose item declares the empty type was walked, and the item's
\* text was translated under the inherited type
C7_Witness ==
    /\ last.path = "json"
    /\ last.parsed.v = NestedDoc(<<"a", "g", "e", "n", "t", "_", "r", "e", "a", "s", "o", "n", "i", "n", "g">>, <<>>, <<"t", "e", "x", "t">>)
    /\ last.translated.v =
          Obj(<<Field(<<"t", "y", "p", "e">>, Str(<<"a", "g", "e", "n", "t", "_", "r", "e", "a", "s", "o", "n", "i", "n", "g">>)),
                Field(<<"i", "t", "e", "m">>, Obj(<<Field(<<"t", "y", "p", "e">>, Str(<<>>)),
                                     Field(<<"t", "e", "x", "t">>, Str(<<"X">>))>>))>>)

\* C7 as stated: only the "reasoning" test is case-insensitive, and a node
\* that declares any type, the empty one too, does not inherit
C7_AsStated ==
    last.path = "json" => FollowsPolicy(last.parsed.v, last.translated.v, None, <<>>, TRUE)

\* ------------------------------------------------------------ one call of translate_text

\* the most pieces a text is made of
MaxPieces == 3

\* the most words a text of words is made of
MaxWords == 4

\* texts with protected spans: code, a path, a flag, and the text of a placeholder
MaskPieces == {<<"a", "b">>, <<" ">>, <<Backtick, "a", Backtick>>, <<"/">>, <<"-", "x">>, <<"⟪", "#", "0", "⟫">>}

RECURSIVE PieceTexts(_)
PieceTexts(n) ==
    IF n = 0 THEN {<<>>}
    ELSE PieceTexts(n - 1) \cup {t \o p : t \in PieceTexts(n - 1), p \in MaskPieces}

Words == {<<"a", "b">>, <<"c", "d">>}

Separators == {<<" ">>, <<",", " ">>}

RECURSIVE WordTexts(_)
\* texts of n words, a separator between each two
WordTexts(n) ==
    IF n = 1 THEN Words
    ELSE {t \o sep \o w : t \in WordTexts(n - 1), sep \in Separators, w \in Words}

Texts == PieceTexts(MaxPieces) \cup UNION {WordTexts(n) : n \in 1..MaxWords}

\* translators main can build: the default phrase bounds or --min-phrase-words 1,
\* with and without overrides, and with a phrase that is both overridden and in
\* the dictionary
Translators ==
    {ControlledTranslator((<<"a", "b", " ", "c", "d">> :> <<"X">>) @@ (<<"a", "b", " ", "c", "d", " ", "a", "b">> :> <<"Y">>), <<>>,
                          DefaultMinPhraseWords, DefaultMaxPhraseWords),
     ControlledTranslator((<<"a", "b">> :> <<"P">>) @@ (<<"a", "b", " ", "c", "d">> :> <<"X">>),
                          <<[source |-> <<"c", "d">>, target |-> <<"O">>]>>, 1, 2),
     ControlledTranslator(<<>>, <<[source |-> <<"0">>, target |-> <<"z">>]>>,
                          DefaultMinPhraseWords, DefaultMaxPhraseWords),
     ControlledTranslator(<<"a", "b", " ", "c", "d">> :> <<"X">>, <<[source |-> <<"A", "b", " ", " ", "C", "d">>, target |-> <<"O">>]>>,
                          DefaultMinPhraseWords, DefaultMaxPhraseWords),
     ControlledTranslator(<<"a", "b", " ", "c", "d">> :> <<"X">>, <<[source |-> <<"a", "b", " ", "c", "d">>, target |-> <<"a", "b", " ", "c", "d">>]>>,
                          DefaultMinPhraseWords, DefaultMaxPhraseWords)}

\* translate_text is called with a text
InitTranslate ==
    /\ overrides_file = None
    /\ main_at = "loop"
    /\ raised = None
    /\ mode = "text"
    /\ delta_mode = "chunk"
    /\ translator \in Translators
    /\ buffers = <<>>
    /\ stats = [lines |-> 0, translated_strings |-> 0, json_records |-> 0]
    /\ line = <<>>
    /\ out = <<>>
    /\ written = 0
    /\ last = [path |-> "none", parsed |-> None, translated |-> None, calls |-> <<>>,
               cleared |-> None, record_id |-> None]
    /\ prov = <<>>
    /\ resets = <<>>
    /\ run = NoRun
    /\ pc = "start"
    /\ text \in Texts
    /\ masked = [out |-> <<>>, protected |-> <<>>]
    /\ overridden = <<>>
    /\ tokens = <<>>
    /\ scan = ScanStart
    /\ translated = <<>>
    /\ result = <<>>

\* if not text.strip() or not has_english(text): return text
TranslateShortCircuit ==
    /\ pc = "start"
    /\ Strip(text) = <<>> \/ ~has_english(text)
    /\ result' = text
    /\ pc' = "done"
    /\ UNCHANGED <<translator, startVars, lineVars, text, masked, overridden, tokens, scan, translated>>

\* protected_text, protected = self._protect(text)
TranslateProtect ==
    /\ pc = "start"
    /\ ~(Strip(text) = <<>> \/ ~has_english(text))
    /\ masked' = _protect(text)
    /\ pc' = "masked"
    /\ UNCHANGED <<translator, startVars, lineVars, text, overridden, tokens, scan, translated, result>>

\* translated = self._apply_overrides(protected_text)
TranslateOverrides ==
    /\ pc = "masked"
    /\ overridden' = _apply_overrides(translator, masked.out)
    /\ pc' = "overridden"
    /\ UNCHANGED <<translator, startVars, lineVars, text, masked, tokens, scan, translated, result>>

\* _apply_dictionary up to its loop: the tokens; a text without tokens is returned
TranslateTokenize ==
    /\ pc = "overridden"
    /\ tokens' = Tokens(overridden)
    /\ IF tokens' = <<>>
       THEN translated' = overridden /\ pc' = "scanned"
       ELSE translated' = translated /\ pc' = "scanning"
    /\ UNCHANGED <<translator, startVars, lineVars, text, masked, overridden, scan, result>>

\* one pass of the while loop of _apply_dictionary
TranslateScanStep ==
    /\ pc = "scanning"
    /\ scan.index < Len(tokens)
    /\ scan' = ScanStep(translator, overridden, tokens, scan)
    /\ UNCHANGED <<translator, startVars, lineVars, pc, text, masked, overridden, tokens, translated,
                   result>>

\* the end of _apply_dictionary
TranslateScanFinish ==
    /\ pc = "scanning"
    /\ ~(scan.index < Len(tokens))
    /\ translated' = ScanFinish(overridden, scan)
    /\ pc' = "scanned"
    /\ UNCHANGED <<translator, startVars, lineVars, text, masked, overridden, tokens, scan, result>>

\* return self._restore(translated, protected)
TranslateRestore ==
    /\ pc = "scanned"
    /\ result' = _restore(translated, masked.protected)
    /\ pc' = "done"
    /\ UNCHANGED <<translator, startVars, lineVars, text, masked, overridden, tokens, scan, translated>>

NextTranslate ==
    \/ TranslateShortCircuit
    \/ TranslateProtect
    \/ TranslateOverrides
    \/ TranslateTokenize
    \/ TranslateScanStep
    \/ TranslateScanFinish
    \/ TranslateRestore

SpecTranslate == InitTranslate /\ [][NextTranslate]_vars

\* the steps of a call end with what translate_text returns
StepsAgree == pc = "done" => result = translate_text(translator, text)

\* C8 as stated: for every text x, restoring the masked text with the span
\* list masking produced returns x exactly.
C8_RestoreInvertsProtect ==
    pc = "masked" => _restore(masked.out, masked.protected) = text

\* the placeholders of the masked text are all in t
PlaceholdersIn(t) ==
    \A i \in 0..(Len(masked.protected) - 1) :
        Contains(masked.out, Placeholder(i)) => Contains(t, Placeholder(i))

\* C9 as stated, for texts that hold no placeholder text of their own: the
\* override pass and the dictionary pass leave every placeholder of the
\* masked text intact, and the output holds no unrestored placeholder.
C9_PlaceholdersSurvive ==
    ~Contains(text, <<"⟪">>)
    => /\ pc \in {"overridden", "scanning", "scanned", "done"} => PlaceholdersIn(overridden)
       /\ pc \in {"scanned", "done"} => PlaceholdersIn(translated)
       /\ pc = "done" => ~Contains(result, <<"⟪", "#">>)

\* the window sizes that hit at token index: within the phrase bounds and the
\* tokens left, separated by whitespace only, the normalized phrase a key
Hits(index) ==
    {n \in translator.min_phrase_words..translator.max_phrase_words :
        /\ index + n <= Len(tokens)
        /\ \A k \in 1..(n - 1) :
              IsSpace(SubSeq(overridden, tokens[index + k].end,
                             tokens[index + k + 1].start - 1))
        /\ normalize_key(Phrase(overridden, tokens, index, n))
              \in DOMAIN translator.dictionary_map}

\* one pass of the scan: the largest window that hits is substituted and the
\* scan moves past it, the text before it copied; on no hit it moves one token
LargestWindowStep ==
    /\ (pc = "scanning" /\ pc' = "scanning")
       => LET hits == Hits(scan.index)
          IN  /\ scan.index < Len(tokens)
              /\ scan'.index > scan.index
              /\ scan'.index <= Len(tokens)
              /\ IF hits = {}
                 THEN scan' = [scan EXCEPT !.index = scan.index + 1]
                 ELSE LET n == Max(hits)
                      IN  /\ scan'.index = scan.index + n
                          /\ scan.cursor <= tokens[scan.index + 1].start
                          /\ scan'.cursor = tokens[scan.index + n].end
                          /\ scan'.out_parts =
                                scan.out_parts
                                \o <<SubSeq(overridden, scan.cursor,
                                            tokens[scan.index + 1].start - 1),
                                     translator.dictionary_map[
                                        normalize_key(Phrase(overridden, tokens,
                                                             scan.index, n))]>>
    /\ (pc = "scanning" /\ pc' = "scanned")
       => /\ scan.index >= Len(tokens)
          /\ translated' = JoinWith(scan.out_parts, <<>>)
                           \o SubSeq(overridden, scan.cursor, Len(overridden))

\* C10.  The dictionary matcher scans tokens left to right and, at each start
\* position not yet consumed, substitutes the largest window size between
\* max_phrase_words and min_phrase_words whose tokens are separated by
\* whitespace only and whose normalized phrase is a dictionary key; after a
\* hit the cursor moves past the whole window, after a miss at every size it
\* moves by one token; all text outside the matched spans is copied
\* unchanged, and the scan ends, the token index growing with every pass.
C10_GreedyLongestMatch == [][LargestWindowStep]_vars

\* "cd ab cd ab": no window hits at the first token, the window of three at
\* the second is taken, not the window of two
C10_Witness ==
    /\ pc = "done"
    /\ text = <<"c", "d", " ", "a", "b", " ", "c", "d", " ", "a", "b">>
    /\ DOMAIN translator.dictionary_map = {<<"a", "b", " ", "c", "d">>, <<"a", "b", " ", "c", "d", " ", "a", "b">>}
    /\ result = <<"c", "d", " ", "Y">>

\* the phrase is in the text at i, no word character before or after it
OccursBounded(t, phrase) == \E i \in 1..Len(t) : MatchOverride(phrase, t, i) > 0

\* C11 as stated: when a normalized phrase is a key of the overrides and of
\* the dictionary, and the text holds the phrase between non-word characters,
\* the output holds the target of the override and not the target the
\* dictionary has for the phrase.
C11_OverrideTakesPrecedence ==
    pc = "done"
    => \A k \in 1..Len(translator.override_patterns) :
          LET o == translator.override_patterns[k]
          IN  (/\ o.source \in DOMAIN translator.dictionary_map
               /\ OccursBounded(text, o.source))
              => /\ Contains(result, o.target)
                 /\ ~Contains(result, translator.dictionary_map[o.source])

\* ------------------------------------------------------------ the start-up of main

\* {"cd": "O"}
OverridesDoc == json_dumps(Obj(<<Field(<<"c", "d">>, Str(<<"O">>))>>))

\* {"ab cd": 1, "cd": "Q"}
MixedOverridesDoc == json_dumps(Obj(<<Field(<<"a", "b", " ", "c", "d">>, Num(1)), Field(<<"c", "d">>, Str(<<"Q">>))>>))

\* what can be at args.overrides: no file, an empty file, JSON cut short, JSON
\* that is not an object, and objects
OverridesFiles ==
    {None}
    \cup {Some(f) : f \in {<<>>, <<"{">>, SubSeq(OverridesDoc, 1, Len(OverridesDoc) - 1),
                           <<"[", "]">>, <<"n", "u", "l", "l">>, <<"1">>, json_dumps(Str(<<"c", "d">>)),
                           <<"{", "}">>, OverridesDoc, MixedOverridesDoc}}

StartLines ==
    {<<"a", "b", " ", "c", "d", "\n">>, <<"c", "d", "\n">>, LineOf(DeltaDoc(<<"a", "g", "e", "n", "t", "_", "r", "e", "a", "s", "o", "n", "i", "n", "g", "_", "d", "e", "l", "t", "a">>, <<"r">>, <<"c", "d">>))}

\* main is entered: the arguments are parsed, the dictionary file exists
InitStart ==
    /\ overrides_file \in OverridesFiles
    /\ main_at = "start"
    /\ raised = None
    /\ mode \in {"auto", "jsonl", "text"}
    /\ delta_mode \in {"full-buffer", "chunk"}
    /\ translator = None
    /\ buffers = <<>>
    /\ stats = [lines |-> 0, translated_strings |-> 0, json_records |-> 0]
    /\ line = <<>>
    /\ out = <<>>
    /\ written = 0
    /\ last = [path |-> "none", parsed |-> None, translated |-> None, calls |-> <<>>,
               cleared |-> None, record_id |-> None]
    /\ prov = <<>>
    /\ resets = <<>>
    /\ run = NoRun
    /\ NoCall

\* main up to its loop: the dictionary and the overrides are loaded and the
\* translator is built; an exception of load_overrides is caught nowhere
Start ==
    /\ main_at = "start"
    /\ \E r \in {load_overrides(overrides_file)} :
         IF r.raised.some
         THEN /\ main_at' = "raised"
              /\ raised' = r.raised
              /\ translator' = translator
         ELSE /\ main_at' = "loop"
              /\ raised' = raised
              /\ translator' = ControlledTranslator(LineDictionary, r.out,
                                                    Max({1, DefaultMinPhraseWords}),
                                                    DefaultMaxPhraseWords)
    /\ UNCHANGED <<overrides_file, lineVars, callVars>>

NextStart ==
    \/ Start
    \/ \E l \in StartLines : ProcessLine(l)

SpecStart == InitStart /\ [][NextStart]_vars

\* the file is invalid JSON, or JSON that is not an object
Malformed(file) ==
    /\ file.some
    /\ \A data \in {json_loads(file.v)} : ~data.some \/ data.v.t # "obj"

\* C12 as stated: when the overrides file is missing or malformed, no
\* exception leaves main, the translator is built with the empty set of
\* overrides, and every line read is answered with a line written.
C12_OverridesFileRecovered ==
    (~overrides_file.some \/ Malformed(overrides_file))
    => /\ main_at # "raised"
       /\ raised = None
       /\ main_at = "loop" => /\ translator = LineTranslator
                              /\ written = stats.lines

\* ------------------------------------------------------------ buffers of several records

\* a stream of deltas and resets of records whose ids are "r", "rs" (which
\* "r" is a prefix of) and "r|s" (which holds the separator of the keys), and
\* a delta of "r" under an event type that holds the separator
IsolationLines ==
    {LineOf(DeltaDoc(<<"a", "g", "e", "n", "t", "_", "r", "e", "a", "s", "o", "n", "i", "n", "g", "_", "d", "e", "l", "t", "a">>, <<"r">>, <<"a", "b", " ">>)),
     LineOf(DeltaDoc(<<"a", "g", "e", "n", "t", "_", "r", "e", "a", "s", "o", "n", "i", "n", "g", "_", "d", "e", "l", "t", "a">>, <<"r", "s">>, <<"c", "d">>)),
     LineOf(DeltaDoc(<<"a", "g", "e", "n", "t", "_", "r", "e", "a", "s", "o", "n", "i", "n", "g", "_", "d", "e", "l", "t", "a">>, <<"r", "|", "s">>, <<"a", "b", " ">>)),
     LineOf(DeltaDoc(<<"a", "g", "e", "n", "t", "_", "r", "e", "a", "s", "o", "n", "i", "n", "g", "_", "d", "e", "l", "t", "a">>, <<"r", "|", "s">>, <<"c", "d">>)),
     LineOf(DeltaDoc(<<"s", "|", "a", "g", "e", "n", "t", "_", "r", "e", "a", "s", "o", "n", "i", "n", "g", "_", "d", "e", "l", "t", "a">>, <<"r">>, <<"c", "d">>))}
    \cup {LineOf(Obj(<<Field(<<"t", "y", "p", "e">>, Str(<<"t", "a", "s", "k", "_", "c", "o", "m", "p", "l", "e", "t", "e">>)), Field(<<"i", "d">>, Str(r))>>)) :
             r \in {<<"r">>, <<"r", "s">>, <<"r", "|", "s">>}}

NextIsolation == \E l \in IsolationLines : ProcessLine(l)

SpecIsolation == Init /\ [][NextIsolation]_vars

\* a line of record R leaves the buffers no line of R has fed as they are, and
\* a buffer goes only with a reset for a record whose lines have fed it
IsolatedStep ==
    \A after \in {buffers'} : \A l \in {last'} :
        \A k \in DOMAIN buffers :
            /\ (l.record_id.some /\ l.record_id.v \notin prov[k].rids)
               => (k \in DOMAIN after /\ after[k] = buffers[k])
            /\ k \notin DOMAIN after
               => (l.cleared.some /\ l.cleared.v \in prov[k].rids)

\* C13 as stated: for distinct record ids R and R', a line of R, delta or
\* reset, neither changes nor deletes a buffer created for R'; a buffer is
\* deleted only by a reset for its own record id; and no buffer is shared by
\* streams of different records.
C13_BuffersIsolated ==
    /\ [][IsolatedStep]_vars
    /\ [](\A k \in DOMAIN buffers : Cardinality(prov[k].rids) <= 1)
====
